---- MODULE Spec2Model ----
(***************************************************************************)
(* Reverse-mode automatic differentiation: the Node class and the drivers  *)
(* AutoDiffR1D / AutoDiffR of src/src/cs107_creativename/Reverse.py.       *)
(*                                                                         *)
(* Node objects live in an arena: node n is the n-th Node constructed, and *)
(* val[n], children[n], der[n] are its three attributes.  Real numbers     *)
(* (Python int and float alike) are exact rationals <<num, den>>.          *)
(***************************************************************************)
EXTENDS Integers, Sequences, FiniteSets, TLC

VARIABLES
    val,        \* val[n]      : Node.val of node n
    children,   \* children[n] : Node.children of node n, a list of <<child, partial>>
    der,        \* der[n]      : Node.der of node n (None until set)
    stack,      \* the get_gradient frames in progress, innermost last
    pc,         \* the position of the running driver
    f,          \* the function handed to AutoDiffR1D
    point,      \* the argument val of AutoDiffR1D
    variables,  \* AutoDiffR1D's list of input nodes
    ip,         \* how many operations of f's body have run
    result,     \* what f returned
    grads,      \* _AutoDiffR's result list (None before the loop starts)
    exc,        \* the exception that ended the call ("" when none)
    call,       \* the last operator call on a Node and what it did
    retval,     \* what the last get_gradient call to return returned (None when
                \* a call by the driver or the caller starts)
    f_list,     \* AutoDiffR's list of functions
    val_list,   \* AutoDiffR's list of points
    results     \* AutoDiffR's list of gradient vectors

vars == <<val, children, der, stack, pc, f, point, variables, ip, result,
          grads, exc, call, retval, f_list, val_list, results>>

heapVars == <<val, children, der>>
driverVars == <<f, point, variables, ip, result, grads>>
batchVars == <<f_list, val_list, results>>

\* Python's None, as the value of an unset der.
None == <<>>

\* ---------------------------------------------------------------- bounds

\* Node objects one AutoDiffR1D evaluation may construct (inputs included).
MaxNodes == 3
\* The inputs of the diamond function range over -MaxX .. MaxX.
MaxX == 4
\* Functions in one AutoDiffR batch.
MaxBatch == 2
\* Node objects a free sequence of operator calls may construct.
MaxHeap == 3
\* Node objects of a graph built for get_gradient calls by the caller.
MaxGraph == 2
\* The ** calls made have an integer exponent and a base whose numerator and
\* denominator are at most PowBound in size.
PowBound == 3

\* ------------------------------------------------------------ real numbers

RECURSIVE GCD(_, _)
GCD(a, b) == IF b = 0 THEN a ELSE GCD(b, a % b)

Abs(n) == IF n < 0 THEN -n ELSE n

\* The rational n/d in lowest terms with a positive denominator (d # 0).
Norm(n, d) ==
    LET g == GCD(Abs(n), Abs(d))
        s == IF d < 0 THEN -1 ELSE 1
    IN  <<(s * n) \div g, (s * d) \div g>>

Q(n) == <<n, 1>>
Zero == Q(0)
One == Q(1)

QAdd(a, b) == Norm(a[1] * b[2] + b[1] * a[2], a[2] * b[2])
QSub(a, b) == Norm(a[1] * b[2] - b[1] * a[2], a[2] * b[2])
QMul(a, b) == Norm(a[1] * b[1], a[2] * b[2])
QNeg(a) == <<-a[1], a[2]>>
\* a / b, for b # 0.
QDiv(a, b) == Norm(a[1] * b[2], a[2] * b[1])
QLt(a, b) == a[1] * b[2] < b[1] * a[2]
QLe(a, b) == a[1] * b[2] <= b[1] * a[2]
IsInt(a) == a[2] = 1

\* a ** k for an integer k (a # 0 when k < 0).
RECURSIVE QPow(_, _)
QPow(a, k) ==
    IF k = 0 THEN One
    ELSE IF k < 0 THEN QDiv(One, QPow(a, -k))
    ELSE QMul(a, QPow(a, k - 1))

\* math.log on the positive rationals built from the primes 2, 3, 5 and 7, each
\* prime's logarithm to one decimal; like math.log it turns products into sums
\* and is strictly increasing on the integers 1 .. 10.
LnPrime(p) ==
    CASE p = 2 -> <<7, 10>>
      [] p = 3 -> <<11, 10>>
      [] p = 5 -> <<16, 10>>
      [] p = 7 -> <<19, 10>>

RECURSIVE Smooth(_)
Smooth(n) ==
    IF n = 1 THEN TRUE
    ELSE IF \E p \in {2, 3, 5, 7} : n % p = 0
         THEN Smooth(n \div (CHOOSE p \in {2, 3, 5, 7} : n % p = 0))
         ELSE FALSE

RECURSIVE LnNat(_)
LnNat(n) ==
    IF n = 1 THEN Zero
    ELSE LET p == CHOOSE q \in {2, 3, 5, 7} : n % q = 0
         IN  QAdd(Norm(LnPrime(p)[1], LnPrime(p)[2]), LnNat(n \div p))

\* The reals the model can take the logarithm or a power of.
Modelled(a) == a[1] # 0 /\ Smooth(Abs(a[1])) /\ Smooth(a[2])

\* math.log(a) for a > 0 (math.log raises ValueError otherwise).
Ln(a) == QSub(LnNat(a[1]), LnNat(a[2]))

\* ----------------------------------------------------------------- values

Ref(n) == [kind |-> "Node", id |-> n]
Real(q) == [kind |-> "real", v |-> q]
Other == [kind |-> "other"]
Bool(b) == [kind |-> "bool", b |-> b]
NoValue == [kind |-> "None"]

\* isinstance(x, float) or isinstance(x, int)
IsReal(x) == x.kind = "real"
\* isinstance(x, Node)
IsNode(x) == x.kind = "Node"

\* ------------------------------------------------------------------- Node

Heap == [val |-> val, children |-> children, der |-> der]
EmptyHeap == [val |-> <<>>, children |-> <<>>, der |-> <<>>]

\* The node a constructor call has just made is the last of the arena.
Last(h) == Len(h.val)

\* Node.__init__ on a real number: val set, children empty, der None.
Node(h, v) ==
    [val |-> Append(h.val, v),
     children |-> Append(h.children, <<>>),
     der |-> Append(h.der, None)]

\* A variant of AppendChild that lists the edge on the wrong node.
AppendParent(h, n, child, partial) ==
    [h EXCEPT !.children[child] = Append(@, <<n, partial>>)]

\* n.children.append((child, partial))
AppendChild(h, n, child, partial) ==
    [h EXCEPT !.children[n] = Append(@, <<child, partial>>)]

\* What an operator call does: the arena after it, and the value it returns or
\* the exception it raises.
Returns(h, x) == [heap |-> h, ret |-> x, exc |-> ""]
Raises(h, e) == [heap |-> h, ret |-> NoValue, exc |-> e]

\* A variant of AddPartials with no weight on other.
AddPartialsSelfOnly(a, b) == <<One, Zero>>

\* A variant of SubPartials that drops the sign on other.
SubPartialsUnsigned(a, b) == <<One, One>>

\* The local derivatives appended by the Node-Node branch of each operator, for
\* self.val = a and other.val = b: <<weight on self, weight on other>>.
AddPartials(a, b) == <<One, One>>
SubPartials(a, b) == <<One, QNeg(One)>>
MulPartials(a, b) == <<b, a>>
DivPartials(a, b) == <<QDiv(One, b), QDiv(QNeg(a), QPow(b, 2))>>

\* One operand is a Node, the other a real: one edge, from self.
Unary(h, self, v, partial) ==
    LET h1 == Node(h, v)
    IN  Returns(AppendChild(h1, self, Last(h1), partial), Ref(Last(h1)))

\* Both operands are Nodes: an edge from self, then an edge from other.
Binary(h, self, other, v, partials) ==
    LET h1 == Node(h, v)
        h2 == AppendChild(h1, self, Last(h1), partials[1])
    IN  Returns(AppendChild(h2, other, Last(h1), partials[2]), Ref(Last(h1)))

__add__(h, self, other) ==
    IF IsReal(other)
    THEN Unary(h, self, QAdd(h.val[self], other.v), One)
    ELSE IF IsNode(other)
    THEN Binary(h, self, other.id, QAdd(h.val[self], h.val[other.id]),
                AddPartials(h.val[self], h.val[other.id]))
    ELSE Raises(h, "TypeError")

__radd__(h, self, other) == __add__(h, self, other)

__mul__(h, self, other) ==
    IF IsReal(other)
    THEN Unary(h, self, QMul(h.val[self], other.v), other.v)
    ELSE IF IsNode(other)
    THEN Binary(h, self, other.id, QMul(h.val[self], h.val[other.id]),
                MulPartials(h.val[self], h.val[other.id]))
    ELSE Raises(h, "TypeError")

__rmul__(h, self, other) == __mul__(h, self, other)

__truediv__(h, self, other) ==
    IF IsReal(other)
    THEN IF other.v = Zero THEN Raises(h, "ZeroDivisionError")
         ELSE Unary(h, self, QDiv(h.val[self], other.v), QDiv(One, other.v))
    ELSE IF IsNode(other)
    THEN IF h.val[other.id] = Zero THEN Raises(h, "ZeroDivisionError")
         ELSE Binary(h, self, other.id, QDiv(h.val[self], h.val[other.id]),
                     DivPartials(h.val[self], h.val[other.id]))
    ELSE Raises(h, "TypeError")

__rtruediv__(h, self, other) ==
    IF IsReal(other)
    THEN IF h.val[self] = Zero THEN Raises(h, "ZeroDivisionError")
         ELSE Unary(h, self, QDiv(other.v, h.val[self]),
                    QDiv(QNeg(other.v), QPow(h.val[self], 2)))
    ELSE Raises(h, "TypeError")

__sub__(h, self, other) ==
    IF IsReal(other)
    THEN Unary(h, self, QSub(h.val[self], other.v), One)
    ELSE IF IsNode(other)
    THEN Binary(h, self, other.id, QSub(h.val[self], h.val[other.id]),
                SubPartials(h.val[self], h.val[other.id]))
    ELSE Raises(h, "TypeError")

__rsub__(h, self, other) ==
    IF IsReal(other)
    THEN Unary(h, self, QSub(other.v, h.val[self]), QNeg(One))
    ELSE Raises(h, "TypeError")

__neg__(h, self) == __mul__(h, self, Real(Q(-1)))

\* other * self.val ** (other - 1), for self.val = a and the integer other = b;
\* Python raises ZeroDivisionError for 0 ** (a negative number).
PowSelfPartial(a, b) == QMul(b, QPow(a, b[1] - 1))
\* self.val ** other.val * math.log(other.val): the logarithm's argument is the
\* exponent b.
PowOtherPartial(a, b) == QMul(QPow(a, b[1]), Ln(b))

__pow__(h, self, other) ==
    IF IsReal(other)
    THEN LET a == h.val[self]
             b == other.v
         IN  IF a = Zero /\ b[1] < 0 THEN Raises(h, "ZeroDivisionError")
             ELSE LET h1 == Node(h, QPow(a, b[1]))
                  IN  IF a = Zero /\ b[1] - 1 < 0
                      THEN Raises(h1, "ZeroDivisionError")
                      ELSE Returns(AppendChild(h1, self, Last(h1), PowSelfPartial(a, b)),
                                   Ref(Last(h1)))
    ELSE IF IsNode(other)
    THEN LET a == h.val[self]
             b == h.val[other.id]
         IN  IF a = Zero /\ b[1] < 0 THEN Raises(h, "ZeroDivisionError")
             ELSE LET h1 == Node(h, QPow(a, b[1]))
                  IN  IF a = Zero /\ b[1] - 1 < 0
                      THEN Raises(h1, "ZeroDivisionError")
                      ELSE LET h2 == AppendChild(h1, self, Last(h1), PowSelfPartial(a, b))
                           IN  IF b[1] <= 0 THEN Raises(h2, "ValueError")
                               ELSE Returns(AppendChild(h2, other.id, Last(h1),
                                                        PowOtherPartial(a, b)),
                                            Ref(Last(h1)))
    ELSE Raises(h, "TypeError")

__rpow__(h, self, other) ==
    IF IsReal(other)
    THEN LET c == other.v
             a == h.val[self]
         IN  IF c = Zero /\ a[1] < 0 THEN Raises(h, "ZeroDivisionError")
             ELSE LET h1 == Node(h, QPow(c, a[1]))
                  IN  IF c[1] <= 0 THEN Raises(h1, "ValueError")
                      ELSE Returns(AppendChild(h1, self, Last(h1),
                                               QMul(QPow(c, a[1]), Ln(c))),
                                   Ref(Last(h1)))
    ELSE Raises(h, "TypeError")

\* A variant of Compare that answers False instead of raising.
CompareLenient(h, self, other, less, orEqual) ==
    IF IsReal(other) \/ IsNode(other)
    THEN LET a == h.val[self]
             b == IF IsReal(other) THEN other.v ELSE h.val[other.id]
             x == IF less THEN a ELSE b
             y == IF less THEN b ELSE a
         IN  Returns(h, Bool(IF orEqual THEN QLe(x, y) ELSE QLt(x, y)))
    ELSE Returns(h, Bool(FALSE))

\* The four ordering comparisons compare val with a real or with a Node's val.
Compare(h, self, other, less, orEqual) ==
    IF IsReal(other) \/ IsNode(other)
    THEN LET a == h.val[self]
             b == IF IsReal(other) THEN other.v ELSE h.val[other.id]
             x == IF less THEN a ELSE b
             y == IF less THEN b ELSE a
         IN  Returns(h, Bool(IF orEqual THEN QLe(x, y) ELSE QLt(x, y)))
    ELSE Raises(h, "TypeError")

__lt__(h, self, other) == Compare(h, self, other, TRUE, FALSE)
__gt__(h, self, other) == Compare(h, self, other, FALSE, FALSE)
__le__(h, self, other) == Compare(h, self, other, TRUE, TRUE)
__ge__(h, self, other) == Compare(h, self, other, FALSE, TRUE)

\* self.val == other.val and self.der == other.der and
\* self.children == other.children, the lists compared element by element,
\* each child by this same comparison.
RECURSIVE NodeEq(_, _, _)
NodeEq(h, n, m) ==
    /\ h.val[n] = h.val[m]
    /\ h.der[n] = h.der[m]
    /\ Len(h.children[n]) = Len(h.children[m])
    /\ \A i \in 1..Len(h.children[n]) :
          /\ NodeEq(h, h.children[n][i][1], h.children[m][i][1])
          /\ h.children[n][i][2] = h.children[m][i][2]

__eq__(h, self, other) ==
    IF IsNode(other) THEN Returns(h, Bool(NodeEq(h, self, other.id)))
    ELSE Returns(h, Bool(FALSE))

__ne__(h, self, other) == Returns(h, Bool(~ __eq__(h, self, other).ret.b))

\* The method of Node an operator call runs.
MethodOf(op, h, self, other) ==
    CASE op = "add" -> __add__(h, self, other)
      [] op = "radd" -> __radd__(h, self, other)
      [] op = "sub" -> __sub__(h, self, other)
      [] op = "rsub" -> __rsub__(h, self, other)
      [] op = "mul" -> __mul__(h, self, other)
      [] op = "rmul" -> __rmul__(h, self, other)
      [] op = "truediv" -> __truediv__(h, self, other)
      [] op = "rtruediv" -> __rtruediv__(h, self, other)
      [] op = "pow" -> __pow__(h, self, other)
      [] op = "rpow" -> __rpow__(h, self, other)
      [] op = "lt" -> __lt__(h, self, other)
      [] op = "gt" -> __gt__(h, self, other)
      [] op = "le" -> __le__(h, self, other)
      [] op = "ge" -> __ge__(h, self, other)
      [] op = "eq" -> __eq__(h, self, other)
      [] op = "ne" -> __ne__(h, self, other)

\* --------------------------------------------------------- get_gradient

\* A get_gradient call in progress on `node`: i = 0 before the test of der,
\* then i is the place in node.children of the child being summed and acc the
\* sum of the terms before it.
Frame(n) == [node |-> n, i |-> 0, acc |-> Zero]
Top == stack[Len(stack)]

\* A variant of Cached that tests `if self.der`, so that 0 is not set.
CachedTruthy(d) == d # None /\ d # Zero

\* if self.der is not None
Cached(d) == d # None

\* A variant of PopWith that leaves the partial out of the term.
PopUnweighted(v) ==
    LET rest == SubSeq(stack, 1, Len(stack) - 1)
    IN  IF rest = <<>> THEN rest
        ELSE LET c == rest[Len(rest)]
             IN  [rest EXCEPT ![Len(rest)] =
                     [c EXCEPT !.acc = QAdd(@, v), !.i = @ + 1]]

\* The stack after the innermost call returns v: its caller adds
\* v * partial to its sum and moves to its next child.
PopWith(v) ==
    LET rest == SubSeq(stack, 1, Len(stack) - 1)
    IN  IF rest = <<>> THEN rest
        ELSE LET c == rest[Len(rest)]
                 partial == children[c.node][c.i][2]
             IN  [rest EXCEPT ![Len(rest)] =
                     [c EXCEPT !.acc = QAdd(@, QMul(v, partial)), !.i = @ + 1]]

\* The same method as one evaluation: the arena after n.get_gradient() has
\* returned, with der[n] the value returned.
RECURSIVE get_gradient(_, _)
RECURSIVE SumChildren(_, _, _, _)
get_gradient(h, n) ==
    IF Cached(h.der[n]) THEN h
    ELSE LET r == SumChildren(h, n, 1, Zero)
         IN  [r.heap EXCEPT !.der[n] = r.acc]
SumChildren(h, n, i, acc) ==
    IF i > Len(h.children[n]) THEN [heap |-> h, acc |-> acc]
    ELSE LET child == h.children[n][i][1]
             partial == h.children[n][i][2]
             h1 == get_gradient(h, child)
         IN  SumChildren(h1, n, i + 1, QAdd(acc, QMul(h1.der[child], partial)))

\* ------------------------------------------------------------ functions

\* A function handed to the drivers: the number of parameters it declares, the
\* operator calls its body makes in order, and what it returns.  A parameter or
\* an earlier result is named by its slot: parameters are slots 1 .. arity,
\* the k-th operation's result is slot arity + k.
Slot(i) == [kind |-> "slot", i |-> i]
Fn(arity, body, ret) ==
    [kind |-> "function", arity |-> arity, body |-> body, ret |-> ret]
Ins(op, self, other) == [op |-> op, self |-> self, other |-> other]

\* The reals a function body uses as constants, and the coordinates of points.
Consts == {Q(3)}
Vals == {Q(-1), Q(2)}

\* The operator calls a body may make when m slots are filled: node op node,
\* node op constant and, the reflected methods, constant op node.
Instrs(m) ==
    {Ins(op, self, Slot(j)) : op \in {"add", "sub", "mul"}, self \in 1..m, j \in 1..m}
    \cup {Ins(op, self, Real(c)) :
             op \in {"add", "radd", "sub", "rsub", "mul", "rmul"},
             self \in 1..m, c \in Consts}

RECURSIVE Bodies(_, _)
Bodies(n, k) ==
    IF k = 0 THEN {<<>>}
    ELSE {Append(b, ins) : b \in Bodies(n, k - 1), ins \in Instrs(n + k - 1)}

\* What a function of m slots may return: one of its slots or a bare constant.
Rets(m) == {Slot(j) : j \in 1..m} \cup {Real(c) : c \in Consts}

RECURSIVE Tuples(_, _)
Tuples(S, n) ==
    IF n = 0 THEN {<<>>} ELSE {Append(t, x) : t \in Tuples(S, n - 1), x \in S}

\* The points of the wrong length tried on a function of n parameters: one
\* coordinate less and one coordinate more.
Mismatched(n) ==
    {[i \in 1..(n + 1) |-> Q(2)]}
    \cup (IF n = 0 THEN {} ELSE {[i \in 1..(n - 1) |-> Q(2)]})

\* The calls AutoDiffR1D(f, point) tried: every function of at most MaxNodes
\* slots on every point of its dimension, the functions of at most one
\* operation also on the points of a wrong length, and something that is no
\* function.
Inputs(g, p) ==
    \/ \E n \in 0..MaxNodes :
          \E k \in (IF n = 0 THEN {0} ELSE 0..(MaxNodes - n)) :
             \E b \in Bodies(n, k), r \in Rets(n + k) :
                /\ g = Fn(n, b, r)
                /\ \/ p \in Tuples(Vals, n)
                   \/ k <= 1 /\ p \in Mismatched(n)
    \/ g = Other /\ p = <<Q(2)>>

\* The node a slot of the running function holds.
Resolve(x) ==
    IF x.kind = "slot" THEN Ref(variables[1] + x.i - 1) ELSE x

\* ----------------------------------------------------------- AutoDiffR1D

SetHeap(h) == val' = h.val /\ children' = h.children /\ der' = h.der

NoCall == [op |-> "", self |-> 0, other |-> NoValue, ret |-> NoValue, exc |-> ""]

\* A variant of DimensionMismatch that accepts a longer val.
DimensionTooFew(dimension, v) == dimension > Len(v)

\* if dimension != len(val)
DimensionMismatch(dimension, v) == dimension # Len(v)

RaiseFrom(e) == pc' = "raised" /\ exc' = e

\* signature(f) and the comparison of the dimension with len(val).
CheckDimension ==
    /\ pc = "start"
    /\ IF f.kind # "function" THEN RaiseFrom("TypeError")
       ELSE IF DimensionMismatch(f.arity, point) THEN RaiseFrom("DimensionMismatch")
       ELSE pc' = "construct" /\ exc' = exc
    /\ UNCHANGED <<heapVars, stack, driverVars, call, retval, batchVars>>

\* [Node(val[i]) for i in range(dimension)]
RECURSIVE NodesFor(_, _, _, _)
NodesFor(h, v, i, dimension) ==
    IF i > dimension THEN h ELSE NodesFor(Node(h, v[i]), v, i + 1, dimension)

Construct ==
    /\ pc = "construct"
    /\ SetHeap(NodesFor(Heap, point, 1, f.arity))
    /\ variables' = [i \in 1..f.arity |-> Len(val) + i]
    /\ ip' = 0
    /\ pc' = "call"
    /\ UNCHANGED <<stack, f, point, result, grads, exc, call, retval, batchVars>>

\* f(*variables), one operator call of its body at a time.
CallOp(name) ==
    /\ pc = "call"
    /\ ip < Len(f.body)
    /\ f.body[ip + 1].op = name
    /\ LET ins == f.body[ip + 1]
           self == Resolve(Slot(ins.self)).id
           other == Resolve(ins.other)
           r == MethodOf(name, Heap, self, other)
       IN  /\ SetHeap(r.heap)
           /\ call' = [op |-> name, self |-> self, other |-> other,
                       ret |-> r.ret, exc |-> r.exc]
           /\ IF r.exc = "" THEN pc' = pc /\ exc' = exc ELSE RaiseFrom(r.exc)
    /\ ip' = ip + 1
    /\ UNCHANGED <<stack, f, point, variables, result, grads, retval, batchVars>>

CallAdd == CallOp("add")
CallRAdd == CallOp("radd")
CallSub == CallOp("sub")
CallRSub == CallOp("rsub")
CallMul == CallOp("mul")
CallRMul == CallOp("rmul")

\* result = f(*variables): the body has run and f returns.
ReturnF ==
    /\ pc = "call"
    /\ ip = Len(f.body)
    /\ result' = Resolve(f.ret)
    /\ pc' = "seed"
    /\ UNCHANGED <<heapVars, stack, f, point, variables, ip, grads, exc, call,
                   retval, batchVars>>

\* result._AutoDiffR(variables), up to its loop: self.der = 1; result = [].
\* A result that is no Node has no such method.
Seed ==
    /\ pc = "seed"
    /\ IF IsNode(result)
       THEN /\ der' = [der EXCEPT ![result.id] = One]
            /\ grads' = <<>>
            /\ pc' = "grad"
            /\ exc' = exc
       ELSE RaiseFrom("AttributeError") /\ UNCHANGED <<der, grads>>
    /\ UNCHANGED <<val, children, stack, f, point, variables, ip, result, call,
                   retval, batchVars>>

\* for var in variables: var.get_gradient() is called.
LoopVar ==
    /\ pc = "grad"
    /\ stack = <<>>
    /\ Len(grads) < Len(variables)
    /\ stack' = <<Frame(variables[Len(grads) + 1])>>
    /\ retval' = None
    /\ UNCHANGED <<heapVars, pc, driverVars, exc, call, batchVars>>

\* The innermost get_gradient call returns v; the outermost call of the loop
\* of _AutoDiffR has its value appended to the result list.
Deliver(v) ==
    /\ stack' = PopWith(v)
    /\ retval' = v
    /\ grads' = IF Len(stack) = 1 /\ pc = "grad" THEN Append(grads, v) ELSE grads

\* get_gradient: der is set, return it.
GetCached ==
    /\ stack # <<>>
    /\ Top.i = 0
    /\ Cached(der[Top.node])
    /\ Deliver(der[Top.node])
    /\ UNCHANGED <<heapVars, pc, f, point, variables, ip, result, exc, call, batchVars>>

\* get_gradient: der is None, start the sum over the children.
GetCompute ==
    /\ stack # <<>>
    /\ Top.i = 0
    /\ ~Cached(der[Top.node])
    /\ stack' = [stack EXCEPT ![Len(stack)].i = 1]
    /\ UNCHANGED <<heapVars, pc, driverVars, exc, call, retval, batchVars>>

\* get_gradient: child.get_gradient() for the next child of the list.
GetChild ==
    /\ stack # <<>>
    /\ Top.i \in 1..Len(children[Top.node])
    /\ stack' = Append(stack, Frame(children[Top.node][Top.i][1]))
    /\ UNCHANGED <<heapVars, pc, driverVars, exc, call, retval, batchVars>>

\* get_gradient: every child is summed; self.der = sum(...), return it.
GetStore ==
    /\ stack # <<>>
    /\ Top.i > Len(children[Top.node])
    /\ der' = [der EXCEPT ![Top.node] = Top.acc]
    /\ Deliver(Top.acc)
    /\ UNCHANGED <<val, children, pc, f, point, variables, ip, result, exc, call,
                   batchVars>>

\* return result, at the end of _AutoDiffR and so of AutoDiffR1D.
ReturnGrads ==
    /\ pc = "grad"
    /\ stack = <<>>
    /\ Len(grads) = Len(variables)
    /\ pc' = "done"
    /\ UNCHANGED <<heapVars, stack, driverVars, exc, call, retval, batchVars>>

\* n.get_gradient() called from outside the drivers: on a node of the graph
\* a finished AutoDiffR1D call built, or on a node the caller made itself.
Read(n) ==
    /\ pc \in {"done", "api"}
    /\ stack = <<>>
    /\ stack' = <<Frame(n)>>
    /\ retval' = None
    /\ UNCHANGED <<heapVars, pc, driverVars, exc, call, batchVars>>

InitHeap ==
    /\ val = <<>> /\ children = <<>> /\ der = <<>> /\ stack = <<>>
    /\ variables = <<>> /\ ip = 0 /\ result = NoValue /\ grads = <<>>
    /\ exc = "" /\ call = NoCall /\ retval = None

Init ==
    /\ InitHeap
    /\ pc = "start"
    /\ Inputs(f, point)
    /\ f_list = NoValue /\ val_list = <<>> /\ results = <<>>

Next ==
    \/ CheckDimension
    \/ Construct
    \/ CallAdd \/ CallRAdd \/ CallSub \/ CallRSub \/ CallMul \/ CallRMul
    \/ ReturnF
    \/ Seed
    \/ LoopVar
    \/ GetCached \/ GetCompute \/ GetChild \/ GetStore
    \/ ReturnGrads
    \/ \E n \in 1..Len(val) : Read(n)

Spec == Init /\ [][Next]_vars

\* ------------------------------------------------- the diamond function

\* f(x) = (x + x) * (x + x)
Diamond ==
    Fn(1, <<Ins("add", 1, Slot(1)), Ins("add", 1, Slot(1)), Ins("mul", 2, Slot(3))>>,
       Slot(4))

InitDiamond ==
    /\ InitHeap
    /\ pc = "start"
    /\ f = Diamond
    /\ point \in {<<Q(x)>> : x \in (-MaxX)..MaxX} \cup Mismatched(1)
    /\ f_list = NoValue /\ val_list = <<>> /\ results = <<>>

NextDiamond ==
    \/ CheckDimension
    \/ Construct
    \/ CallAdd \/ CallMul
    \/ ReturnF
    \/ Seed
    \/ LoopVar
    \/ GetCached \/ GetCompute \/ GetChild \/ GetStore
    \/ ReturnGrads

SpecDiamond == InitDiamond /\ [][NextDiamond]_vars

\* ------------------------------------------- operator calls by a caller

\* Node(v): the constructor accepts an int or a float.
__init__(h, v) ==
    IF IsReal(v) THEN Returns(Node(h, v.v), Ref(Len(h.val) + 1))
    ELSE Raises(h, "TypeError")

Called(name, self, other, r) ==
    /\ SetHeap(r.heap)
    /\ call' = [op |-> name, self |-> self, other |-> other,
                ret |-> r.ret, exc |-> r.exc]
    /\ UNCHANGED <<stack, pc, driverVars, exc, retval, batchVars>>

\* Node(v)
New(v) ==
    /\ pc = "api" /\ stack = <<>>
    /\ Called("Node", 0, v, __init__(Heap, v))

\* self <op> other, or other <op> self for a reflected method.
Arith(name, self, other) ==
    /\ pc = "api" /\ stack = <<>>
    /\ Called(name, self, other, MethodOf(name, Heap, self, other))

\* The ** calls the model makes: see PowBound.
PowModelled(a, b) ==
    /\ IsInt(b) /\ Abs(b[1]) <= PowBound
    /\ Abs(a[1]) <= PowBound /\ a[2] <= PowBound

Value(h, x) == IF IsNode(x) THEN h.val[x.id] ELSE x.v

Add(self, other) == Arith("add", self, other)
RAdd(self, other) == Arith("radd", self, other)
Sub(self, other) == Arith("sub", self, other)
RSub(self, other) == Arith("rsub", self, other)
Mul(self, other) == Arith("mul", self, other)
RMul(self, other) == Arith("rmul", self, other)
TrueDiv(self, other) == Arith("truediv", self, other)
RTrueDiv(self, other) == Arith("rtruediv", self, other)
Pow(self, other) ==
    /\ other.kind \in {"Node", "real"} => PowModelled(val[self], Value(Heap, other))
    /\ Arith("pow", self, other)
RPow(self, other) ==
    /\ IsReal(other) => PowModelled(other.v, val[self])
    /\ Arith("rpow", self, other)
Neg(self) ==
    /\ pc = "api" /\ stack = <<>>
    /\ Called("neg", self, NoValue, __neg__(Heap, self))

\* self <comparison> other
Comparison(name, self, other) ==
    /\ pc = "api" /\ stack = <<>>
    /\ Called(name, self, other, MethodOf(name, Heap, self, other))

Lt(self, other) == Comparison("lt", self, other)
Gt(self, other) == Comparison("gt", self, other)
Le(self, other) == Comparison("le", self, other)
Ge(self, other) == Comparison("ge", self, other)
Eq(self, other) == Comparison("eq", self, other)
Ne(self, other) == Comparison("ne", self, other)

\* The operands a caller passes: a Node, a real, or something that is neither.
Reals == {Real(Q(-1)), Real(Q(2)), Real(Q(3))}
Nodes == {Ref(n) : n \in 1..Len(val)}
Operands == Nodes \cup Reals \cup {Other}

\* The nodes a call that may construct a Node is made on, and the values the
\* constructor is called on: none once the arena holds cap nodes.
Receivers(cap) == IF Len(val) < cap THEN 1..Len(val) ELSE {}
Fresh(cap, S) == IF Len(val) < cap THEN S ELSE {}

InitApi ==
    /\ InitHeap
    /\ pc = "api"
    /\ f = NoValue /\ point = <<>>
    /\ f_list = NoValue /\ val_list = <<>> /\ results = <<>>

\* Constructor and arithmetic calls, in any order, on Nodes and reals.
NextOps ==
    \/ \E v \in Fresh(MaxHeap, Reals) : New(v)
    \/ \E self \in Receivers(MaxHeap), other \in Nodes \cup Reals : Add(self, other)
    \/ \E self \in Receivers(MaxHeap), other \in Reals : RAdd(self, other)
    \/ \E self \in Receivers(MaxHeap), other \in Nodes \cup Reals : Sub(self, other)
    \/ \E self \in Receivers(MaxHeap), other \in Reals : RSub(self, other)
    \/ \E self \in Receivers(MaxHeap), other \in Nodes \cup Reals : Mul(self, other)
    \/ \E self \in Receivers(MaxHeap), other \in Reals : RMul(self, other)
    \/ \E self \in Receivers(MaxHeap), other \in Nodes \cup Reals : TrueDiv(self, other)
    \/ \E self \in Receivers(MaxHeap), other \in Reals : RTrueDiv(self, other)
    \/ \E self \in Receivers(MaxHeap), other \in Nodes \cup Reals : Pow(self, other)
    \/ \E self \in Receivers(MaxHeap), other \in Reals : RPow(self, other)
    \/ \E self \in Receivers(MaxHeap) : Neg(self)

SpecOps == InitApi /\ [][NextOps]_vars

\* Constructor calls, every comparison on any operand, and every arithmetic
\* method on an operand that is neither a Node nor a real.
NextTypes ==
    \/ \E v \in Fresh(MaxHeap, Reals \cup {Other}) : New(v)
    \/ \E self \in 1..Len(val), other \in Operands : Lt(self, other)
    \/ \E self \in 1..Len(val), other \in Operands : Gt(self, other)
    \/ \E self \in 1..Len(val), other \in Operands : Le(self, other)
    \/ \E self \in 1..Len(val), other \in Operands : Ge(self, other)
    \/ \E self \in 1..Len(val), other \in Operands : Eq(self, other)
    \/ \E self \in 1..Len(val), other \in Operands : Ne(self, other)
    \/ \E self \in 1..Len(val) : Add(self, Other)
    \/ \E self \in 1..Len(val) : RAdd(self, Other)
    \/ \E self \in 1..Len(val) : Sub(self, Other)
    \/ \E self \in 1..Len(val) : RSub(self, Other)
    \/ \E self \in 1..Len(val) : Mul(self, Other)
    \/ \E self \in 1..Len(val) : RMul(self, Other)
    \/ \E self \in 1..Len(val) : TrueDiv(self, Other)
    \/ \E self \in 1..Len(val) : RTrueDiv(self, Other)
    \/ \E self \in 1..Len(val) : Pow(self, Other)
    \/ \E self \in 1..Len(val) : RPow(self, Other)

SpecTypes == InitApi /\ [][NextTypes]_vars

\* Constructor and arithmetic calls (a binary method on two Nodes, a reflected
\* method on a constant and a Node), and get_gradient called on any node at
\* any time between them.
Two == Real(Q(2))

NextGraph ==
    \/ \E v \in Fresh(MaxGraph, {Two}) : New(v)
    \/ \E self \in Receivers(MaxGraph), other \in Nodes : Add(self, other)
    \/ \E self \in Receivers(MaxGraph) : RAdd(self, Two)
    \/ \E self \in Receivers(MaxGraph), other \in Nodes : Sub(self, other)
    \/ \E self \in Receivers(MaxGraph) : RSub(self, Two)
    \/ \E self \in Receivers(MaxGraph), other \in Nodes : Mul(self, other)
    \/ \E self \in Receivers(MaxGraph) : RMul(self, Two)
    \/ \E self \in Receivers(MaxGraph), other \in Nodes : TrueDiv(self, other)
    \/ \E self \in Receivers(MaxGraph) : RTrueDiv(self, Two)
    \/ \E self \in Receivers(MaxGraph), other \in Nodes : Pow(self, other)
    \/ \E self \in Receivers(MaxGraph) : RPow(self, Two)
    \/ \E self \in Receivers(MaxGraph) : Neg(self)
    \/ \E n \in 1..Len(val) : Read(n)
    \/ GetCached \/ GetCompute \/ GetChild \/ GetStore

\* A get_gradient call that has started keeps running: nothing else runs
\* while it does.
GetStep == GetCached \/ GetCompute \/ GetChild \/ GetStore

SpecGraph == InitApi /\ [][NextGraph]_vars /\ WF_vars(GetStep)

\* --------------------------------------------------------------- AutoDiffR

\* AutoDiffR1D(fn, pt) as one evaluation on nodes of its own: what it raises,
\* or the list it returns.
RECURSIVE RunBody(_, _, _)
RunBody(h, body, k) ==
    IF k > Len(body) THEN h
    ELSE LET ins == body[k]
             other == IF ins.other.kind = "slot" THEN Ref(ins.other.i) ELSE ins.other
         IN  RunBody(MethodOf(ins.op, h, ins.self, other).heap, body, k + 1)

RECURSIVE Gradients(_, _, _, _)
Gradients(h, k, dimension, acc) ==
    IF k > dimension THEN acc
    ELSE LET h1 == get_gradient(h, k)
         IN  Gradients(h1, k + 1, dimension, Append(acc, h1.der[k]))

AutoDiffR1D(fn, pt) ==
    IF fn.kind # "function" THEN [exc |-> "TypeError", ret |-> <<>>]
    ELSE IF DimensionMismatch(fn.arity, pt)
    THEN [exc |-> "DimensionMismatch", ret |-> <<>>]
    ELSE IF fn.ret.kind # "slot" THEN [exc |-> "AttributeError", ret |-> <<>>]
    ELSE LET h == RunBody(NodesFor(EmptyHeap, pt, 1, fn.arity), fn.body, 1)
             seeded == [h EXCEPT !.der[fn.ret.i] = One]
         IN  [exc |-> "", ret |-> Gradients(seeded, 1, fn.arity, <<>>)]

\* The functions and points of the batches: the diamond, f(x, y) = x * y,
\* f(x, y) = x * x, and f(x) = 3 * x - x.
Product == Fn(2, <<Ins("mul", 1, Slot(2))>>, Slot(3))
SquareOfFirst == Fn(2, <<Ins("mul", 1, Slot(1))>>, Slot(3))
Linear == Fn(1, <<Ins("rmul", 1, Real(Q(3))), Ins("sub", 2, Slot(1))>>, Slot(3))
Catalogue == {Diamond, Product, SquareOfFirst, Linear}
BatchPoints == {<<Q(2)>>, <<Q(-1)>>, <<Q(3), Q(-1)>>}

List(items) == [kind |-> "list", items |-> items]
\* isinstance(f_list, list)
IsList(x) == x.kind = "list"

\* A variant of Zip that pairs every function with the first point.
ZipFirstPoint(fl, vl, i) == <<fl[i], vl[1]>>

\* zip(f_list, val_list): its i-th pair.
Zip(fl, vl, i) == <<fl[i], vl[i]>>

\* AutoDiffR, up to its loop: the two lengths are compared; a single function
\* is handed to AutoDiffR1D with val_list as its point.
Dispatch ==
    /\ pc = "batch"
    /\ IF IsList(f_list)
       THEN IF Len(f_list.items) # Len(val_list)
            THEN RaiseFrom("LengthMismatch") /\ UNCHANGED <<f, point>>
            ELSE pc' = "loop" /\ UNCHANGED <<exc, f, point>>
       ELSE f' = f_list /\ point' = val_list /\ pc' = "start" /\ exc' = exc
    /\ UNCHANGED <<heapVars, stack, variables, ip, result, grads, call, retval,
                   batchVars>>

\* for f, val in zip(f_list, val_list): AutoDiffR1D(f, val) is called.
NextFunction ==
    /\ pc = "loop"
    /\ Len(results) < Len(f_list.items)
    /\ LET pair == Zip(f_list.items, val_list, Len(results) + 1)
       IN  f' = pair[1] /\ point' = pair[2]
    /\ variables' = <<>> /\ ip' = 0 /\ result' = NoValue /\ grads' = <<>>
    /\ pc' = "start"
    /\ UNCHANGED <<heapVars, stack, exc, call, retval, batchVars>>

\* results.append(AutoDiffR1D(f, val)), or, for a single function, return
\* AutoDiffR1D(f_list, val_list).
Collect ==
    /\ pc = "done"
    /\ f_list # NoValue
    /\ IF IsList(f_list)
       THEN results' = Append(results, grads) /\ pc' = "loop"
       ELSE results' = grads /\ pc' = "returned"
    /\ UNCHANGED <<heapVars, stack, driverVars, exc, call, retval, f_list, val_list>>

\* return results
ReturnResults ==
    /\ pc = "loop"
    /\ Len(results) = Len(f_list.items)
    /\ pc' = "returned"
    /\ UNCHANGED <<heapVars, stack, driverVars, exc, call, retval, batchVars>>

InitBatch ==
    /\ InitHeap
    /\ pc = "batch"
    /\ f = NoValue /\ point = <<>>
    /\ results = <<>>
    /\ \/ \E n \in 0..MaxBatch, m \in 0..MaxBatch :
             /\ f_list \in {List(t) : t \in Tuples(Catalogue, n)}
             /\ val_list \in Tuples(BatchPoints, m)
       \/ f_list \in Catalogue /\ val_list \in BatchPoints

NextBatch ==
    \/ Dispatch
    \/ NextFunction
    \/ CheckDimension
    \/ Construct
    \/ CallAdd \/ CallSub \/ CallMul \/ CallRMul
    \/ ReturnF
    \/ Seed
    \/ LoopVar
    \/ GetCached \/ GetCompute \/ GetChild \/ GetStore
    \/ ReturnGrads
    \/ Collect
    \/ ReturnResults

SpecBatch == InitBatch /\ [][NextBatch]_vars

\* ------------------------------------------------------------- properties

\* C1: for f(x) = (x + x) * (x + x) and every x0, AutoDiffR1D(f, [x0]) returns
\* [8 * x0]; the input has four edges (two per sum) and each sum one edge to
\* the product.
DiamondGradient ==
    pc = "done" =>
        /\ grads = <<QMul(Q(8), point[1])>>
        /\ Len(children[variables[1]]) = 4
        /\ Len(children[2]) = 1 /\ Len(children[3]) = 1
        /\ result = Ref(4)

DiamondReached ==
    /\ pc = "done" /\ point = <<Q(2)>> /\ grads = <<Q(16)>>
    /\ val = <<Q(2), Q(4), Q(4), Q(16)>>

\* The sum, over the directed paths of edges from n to out, of the product of
\* the weights on the path (the empty path from out to itself has product 1).
RECURSIVE PathSum(_, _)
RECURSIVE PathTerms(_, _, _)
PathSum(n, out) == QAdd(IF n = out THEN One ELSE Zero, PathTerms(n, out, 1))
PathTerms(n, out, i) ==
    IF i > Len(children[n]) THEN Zero
    ELSE QAdd(QMul(children[n][i][2], PathSum(children[n][i][1], out)),
              PathTerms(n, out, i + 1))

\* C2: the gradient AutoDiffR1D returns for each input, in input order, is the
\* sum over the paths from that input to the output of the product of the edge
\* weights; an input with no edge gets 0.
GradientIsPathSum ==
    pc = "done" =>
        /\ Len(grads) = Len(variables)
        /\ \A i \in 1..Len(variables) :
              /\ grads[i] = PathSum(variables[i], result.id)
              /\ children[variables[i]] = <<>> /\ result.id # variables[i]
                    => grads[i] = Zero

\* f(x, y) = x * x at (2, -1): x is consumed twice, y never.
PathSumReached ==
    /\ pc = "done"
    /\ Len(variables) = 2
    /\ Len(children[variables[1]]) = 2
    /\ children[variables[2]] = <<>>
    /\ grads = <<Q(4), Zero>>

\* C5: with len(point) different from the number of parameters of f the call
\* raises the dimension error with no Node constructed, f not called and no
\* gradient list made; with equal lengths that error is not raised.
DimensionChecked ==
    f.kind = "function" =>
        /\ Len(point) # f.arity =>
              /\ pc \in {"start", "raised"}
              /\ pc = "raised" => exc = "DimensionMismatch"
              /\ val = <<>> /\ variables = <<>>
              /\ ip = 0 /\ call = NoCall /\ result = NoValue
              /\ grads = <<>> /\ retval = None
        /\ Len(point) = f.arity => exc # "DimensionMismatch"

DimensionRaised ==
    /\ pc = "raised" /\ exc = "DimensionMismatch"
    /\ f.kind = "function" /\ Len(point) = f.arity + 1 /\ f.arity > 0

\* C8: a der that is set is never written again, and a get_gradient call on a
\* node whose der is set (0 included) returns that value at once, opening no
\* call on a child.
CacheStable ==
    [][/\ \A n \in 1..Len(der) : der[n] # None => der'[n] = der[n]
       /\ (stack # <<>> /\ Top.i = 0 /\ der[Top.node] # None) =>
              /\ retval' = der[Top.node]
              /\ Len(stack') = Len(stack) - 1
              /\ der' = der]_vars

\* A later read, by the caller, of a node whose cached der is 0.
CachedZeroRead ==
    /\ pc = "done"
    /\ Len(stack) = 1 /\ Top.i = 0
    /\ der[Top.node] = Zero

\* C10 as stated: when f returns a bare constant without any operation on its
\* inputs, the call ends with the gradient reads of the inputs, each 0.
ConstantGivesZeros ==
    (/\ f.kind = "function" /\ f.body = <<>> /\ IsReal(f.ret)
     /\ Len(point) = f.arity
     /\ pc \in {"done", "raised"})
        => pc = "done" /\ grads = [i \in 1..f.arity |-> Zero]

\* C10, what the code does instead: when f returns a bare constant, the call
\* raises AttributeError at result._AutoDiffR and returns no gradient list; no
\* der is ever set and no get_gradient call is made; the inputs, when f made
\* no operation on them, stay leaves with no edge.
ConstantRaises ==
    (f.kind = "function" /\ IsReal(f.ret) /\ Len(point) = f.arity) =>
        /\ pc \notin {"grad", "done"}
        /\ pc = "raised" => exc = "AttributeError" /\ result = f.ret
        /\ stack = <<>> /\ grads = <<>> /\ retval = None
        /\ \A n \in 1..Len(der) : der[n] = None
        /\ f.body = <<>> => \A n \in 1..Len(children) : children[n] = <<>>

ConstantRaised ==
    /\ pc = "raised" /\ exc = "AttributeError"
    /\ f.body = <<>> /\ Len(variables) = 2
    /\ children = <<<<>>, <<>>>>

\* C9: every edge of a node's list points to a node constructed after it, and
\* every get_gradient call, on any node of any graph the operators build,
\* returns.
EdgesForward ==
    \A n \in 1..Len(children) : \A i \in 1..Len(children[n]) :
        children[n][i][1] > n /\ children[n][i][1] <= Len(val)

TabulatedWeights(op, a, b) ==
    CASE op = "add" -> <<Q(1), Q(1)>>
      [] op = "sub" -> <<Q(1), Q(-1)>>
      [] op = "mul" -> <<b, a>>
      [] op = "truediv" -> <<QDiv(Q(1), b), QNeg(QDiv(a, QMul(b, b)))>>
TabulatedValue(op, a, b) ==
    CASE op = "add" -> QAdd(a, b)
      [] op = "sub" -> QSub(a, b)
      [] op = "mul" -> QMul(a, b)
      [] op = "truediv" -> QDiv(a, b)
DirectOps == {"add", "sub", "mul", "truediv"}
ReflectedOps == {"radd", "rsub", "rmul", "rtruediv"}
DirectOf(op) ==
    CASE op = "radd" -> "add" [] op = "rsub" -> "sub"
      [] op = "rmul" -> "mul" [] op = "rtruediv" -> "truediv"
      [] OTHER -> op

\* C3: an add, subtract, multiply or divide call that returns has constructed
\* exactly one Node, of the value a <op> b, and has appended one edge to it to
\* the list of each Node operand occurrence (two to the list of x for
\* x <op> x, none for a constant), with the tabulated weights; nothing else of
\* any node has changed.
EdgesAsTabulated ==
    [][(call'.op \in DirectOps \cup ReflectedOps /\ call'.exc = "") =>
        LET op == DirectOf(call'.op)
            self == call'.self
            other == call'.other
            direct == call'.op \in DirectOps
            nn == Len(val) + 1
            a == IF direct THEN val[self] ELSE other.v
            b == IF ~direct THEN val[self]
                 ELSE IF IsNode(other) THEN val[other.id] ELSE other.v
            W == TabulatedWeights(op, a, b)
            e1 == [children EXCEPT
                      ![self] = Append(@, <<nn, IF direct THEN W[1] ELSE W[2]>>)]
            e2 == IF direct /\ IsNode(other)
                  THEN [e1 EXCEPT ![other.id] = Append(@, <<nn, W[2]>>)]
                  ELSE e1
        IN  /\ call'.ret = Ref(nn)
            /\ val' = Append(val, TabulatedValue(op, a, b))
            /\ children' = Append(e2, <<>>)
            /\ der' = Append(der, None)]_vars

\* x / y for two Nodes x = 2 and y = 3.
DividedTwoNodes ==
    /\ call.op = "truediv" /\ call.exc = ""
    /\ call.self = 1 /\ call.other = Ref(2)
    /\ val = <<Q(2), Q(3), <<2, 3>>>>
    /\ children = <<<< <<3, <<1, 3>>>> >>, << <<3, <<-2, 9>>>> >>, <<>>>>

\* C4: a ** b on two Nodes constructs a Node of value a^b, appends to the base
\* an edge of weight b * a^(b-1) and to the exponent an edge of weight
\* a^b * ln(a), the logarithm of the base (a > 0).
PowLogOfBase ==
    (/\ call.op = "pow" /\ call.exc = "" /\ IsNode(call.other)
     /\ val[call.self][1] > 0) =>
        LET a == val[call.self]
            b == val[call.other.id]
            nn == call.ret.id
            cs == children[call.self]
            co == children[call.other.id]
            own == IF call.other.id = call.self THEN Len(cs) - 1 ELSE Len(cs)
        IN  /\ val[nn] = QPow(a, b[1])
            /\ cs[own] = <<nn, QMul(b, QPow(a, b[1] - 1))>>
            /\ co[Len(co)] = <<nn, QMul(QPow(a, b[1]), Ln(a))>>

ArithMethods ==
    {"add", "radd", "sub", "rsub", "mul", "rmul", "truediv", "rtruediv", "pow", "rpow"}
OrderMethods == {"lt", "gt", "le", "ge"}

\* C7 as stated: every arithmetic method and every comparison raises
\* TypeError on an operand that is neither a Node nor a real.
TypeErrorOnEveryMethod ==
    (call.other = Other /\ call.op \in ArithMethods \cup OrderMethods \cup {"eq", "ne"})
        => call.exc = "TypeError"

\* C7, amended: every arithmetic method and each of <, >, <=, >= raises
\* TypeError on such an operand and changes no node; == returns False and !=
\* returns True on it, raising nothing.
TypeErrorButEquality ==
    [][(call'.other = Other /\ call'.op # "Node") =>
        /\ UNCHANGED heapVars
        /\ call'.op \in ArithMethods \cup OrderMethods =>
              call'.exc = "TypeError" /\ call'.ret = NoValue
        /\ call'.op = "eq" => call'.exc = "" /\ call'.ret = Bool(FALSE)
        /\ call'.op = "ne" => call'.exc = "" /\ call'.ret = Bool(TRUE)]_vars

OrderingRaised ==
    /\ call.op = "ge" /\ call.other = Other /\ call.exc = "TypeError"
    /\ Len(val) = 2

\* C6: for lists of equal length AutoDiffR returns, in order, the list
\* AutoDiffR1D returns for each function on its point, no edge joining the
\* nodes of one evaluation with those of another; for lists of different
\* lengths it raises the length error with no function evaluated.
BatchDispatch ==
    IsList(f_list) =>
        /\ pc = "returned" =>
              /\ Len(results) = Len(f_list.items)
              /\ \A i \in 1..Len(results) :
                    LET one == AutoDiffR1D(f_list.items[i], val_list[i])
                    IN  one.exc = "" /\ results[i] = one.ret
        /\ Len(f_list.items) = Len(val_list) => exc # "LengthMismatch"
        /\ variables # <<>> =>
              \A n \in 1..Len(children) : \A i \in 1..Len(children[n]) :
                  (n < variables[1]) <=> (children[n][i][1] < variables[1])
        /\ Len(f_list.items) # Len(val_list) =>
              /\ pc \in {"batch", "raised"}
              /\ pc = "raised" => exc = "LengthMismatch"
              /\ val = <<>> /\ results = <<>> /\ f = NoValue /\ call = NoCall

\* AutoDiffR([diamond, product], [[-1], [3, -1]]) = [[-8], [-1, 3]].
BatchReturned ==
    /\ pc = "returned"
    /\ f_list = List(<<Diamond, Product>>)
    /\ val_list = <<<<Q(-1)>>, <<Q(3), Q(-1)>>>>
    /\ results = <<<<Q(-8)>>, <<Q(-1), Q(3)>>>>

====
